---- MODULE Spec2Model ----
(***************************************************************************)
(* Receiver-side flow control with window auto-tuning, as implemented by   *)
(* FlowControl in src/src/connection/flowcontrol.rs.                       *)
(*                                                                         *)
(* The u64 counters are modelled with a scaled-down word: values range     *)
(* over 0..U64Max and unchecked arithmetic is reduced modulo U64Max + 1.   *)
(* Rust's `+`, `-` and `*` on u64 panic when the build has overflow checks *)
(* (debug profile) and wrap otherwise (release profile), so the build is a *)
(* choice made once, in Init.                                              *)
(***************************************************************************)
EXTENDS Integers, Sequences, FiniteSets, TLC

\* Largest value of the scaled-down u64 word.
U64Max == 4
\* Largest Instant handed to update_max_data / autotune_window.
MaxNow == 2
\* Largest smoothed RTT handed to autotune_window.
MaxSrtt == 1

U64 == 0..U64Max
U64Modulus == U64Max + 1
Instants == 0..MaxNow
Durations == 0..MaxSrtt

\* Option<Instant>: None is the empty sequence, Some(t) is <<t>>.
None == <<>>
Some(t) == <<t>>

VARIABLES
    read_off,        \* FlowControl.read_off
    recv_off,        \* FlowControl.recv_off
    max_data,        \* FlowControl.max_data
    window,          \* FlowControl.window
    max_window,      \* FlowControl.max_window
    last_updated,    \* FlowControl.last_updated
    overflow_checks, \* TRUE: arithmetic overflow panics; FALSE: it wraps
    panicked,        \* TRUE once a call has panicked
    call,            \* the last call: its name and the value it returned
    twin             \* a second FlowControl given the same calls (twin.on), or unused

fields == <<read_off, recv_off, max_data, window, max_window, last_updated>>
vars == <<read_off, recv_off, max_data, window, max_window, last_updated,
          overflow_checks, panicked, call, twin>>

Min(a, b) == IF a < b THEN a ELSE b
Max(a, b) == IF a > b THEN a ELSE b

\* u64 arithmetic of a build without overflow checks.
wrapping_add(a, b) == (a + b) % U64Modulus
wrapping_sub(a, b) == (a - b + U64Modulus) % U64Modulus
wrapping_mul(a, b) == (a * b) % U64Modulus

\* The conditions under which a build with overflow checks panics.
add_overflows(a, b) == a + b > U64Max
sub_overflows(a, b) == a < b
mul_overflows(a, b) == a * b > U64Max

\* Instant - Instant is Instant::duration_since, which saturates at zero.
duration_since(later, earlier) == IF later >= earlier THEN later - earlier ELSE 0

\* call.repeated: the call is an update_max_data made directly after another
\* update_max_data, with no operation in between.
Repeated(op) == op = "update_max_data" /\ call.op = op

Returned(op, ret) ==
    /\ call' = [op |-> op, ret |-> ret, repeated |-> Repeated(op)]
    /\ UNCHANGED <<overflow_checks, panicked>>

\* A panicking call unwinds before any field is assigned.
Panic(op) ==
    /\ panicked' = TRUE
    /\ call' = [op |-> op, ret |-> <<>>, repeated |-> Repeated(op)]
    /\ UNCHANGED <<overflow_checks, fields>>

\* The second instance: the fields of a FlowControl constructed by the same
\* new(w, mw) (max_window is shared), whether it has panicked and what its
\* last call returned.  The twin_ operators are the methods as functions of
\* that record.
NoTwin ==
    [on |-> FALSE, read_off |-> 0, recv_off |-> 0, max_data |-> 0, window |-> 0,
     last_updated |-> None, panicked |-> FALSE, ret |-> <<>>]

twin_new(w, r) ==
    [on |-> TRUE, read_off |-> 0, recv_off |-> r, max_data |-> w, window |-> w,
     last_updated |-> None, panicked |-> FALSE, ret |-> <<>>]

twin_idle(s) == ~s.on \/ s.panicked

\* Both instances live in one program: a panic in either ends it.
Twin(next) == ~twin.panicked /\ twin' = next

twin_panic(s) == [s EXCEPT !.panicked = TRUE, !.ret = <<>>]

twin_window_get(s) ==
    IF twin_idle(s) THEN s ELSE [s EXCEPT !.ret = <<s.window>>]

twin_max_data_get(s) ==
    IF twin_idle(s) THEN s ELSE [s EXCEPT !.ret = <<s.max_data>>]

twin_recv_off_get(s) ==
    IF twin_idle(s) THEN s ELSE [s EXCEPT !.ret = <<s.recv_off>>]

twin_increase_recv_off(s, delta) ==
    IF twin_idle(s) THEN s
    ELSE IF overflow_checks /\ add_overflows(s.recv_off, delta)
         THEN twin_panic(s)
         ELSE [s EXCEPT !.recv_off = wrapping_add(s.recv_off, delta), !.ret = <<>>]

twin_increase_read_off(s, delta) ==
    IF twin_idle(s) THEN s
    ELSE IF overflow_checks /\ add_overflows(s.read_off, delta)
         THEN twin_panic(s)
         ELSE [s EXCEPT !.read_off = wrapping_add(s.read_off, delta), !.ret = <<>>]

twin_should_send_max_data(s) ==
    IF twin_idle(s) THEN s
    ELSE IF overflow_checks /\ (\/ sub_overflows(s.max_data, s.read_off)
                                \/ mul_overflows(wrapping_sub(s.max_data, s.read_off), 2))
         THEN twin_panic(s)
         ELSE [s EXCEPT !.ret =
                  <<wrapping_mul(wrapping_sub(s.max_data, s.read_off), 2) < s.window>>]

twin_max_data_next(s) ==
    IF twin_idle(s) THEN s
    ELSE IF overflow_checks /\ add_overflows(s.read_off, s.window)
         THEN twin_panic(s)
         ELSE [s EXCEPT !.ret = <<wrapping_add(s.read_off, s.window)>>]

twin_update_max_data(s, now) ==
    IF twin_idle(s) THEN s
    ELSE IF overflow_checks /\ add_overflows(s.read_off, s.window)
         THEN twin_panic(s)
         ELSE [s EXCEPT !.max_data = wrapping_add(s.read_off, s.window),
                        !.last_updated = Some(now), !.ret = <<>>]

twin_autotune_window(s, now, srtt) ==
    IF twin_idle(s) THEN s
    ELSE IF s.last_updated # None /\ duration_since(now, s.last_updated[1]) < srtt * 2
         THEN IF overflow_checks /\ mul_overflows(s.window, 2)
              THEN twin_panic(s)
              ELSE [s EXCEPT !.window = Min(wrapping_mul(s.window, 2), max_window),
                             !.ret = <<>>]
         ELSE [s EXCEPT !.ret = <<>>]

twin_ensure_window_lower_bound(s, min_window) ==
    IF twin_idle(s) THEN s
    ELSE [s EXCEPT !.window = Max(s.window, min_window), !.ret = <<>>]

new(w, mw) ==
    /\ read_off = 0
    /\ recv_off = 0
    /\ max_data = w
    /\ window = w
    /\ max_window = mw
    /\ last_updated = None
    /\ call = [op |-> "new", ret |-> <<>>, repeated |-> FALSE]

\* new(window, max_window) documents window <= max_window as the caller's duty.
Init ==
    /\ overflow_checks \in BOOLEAN
    /\ panicked = FALSE
    /\ \E w \in U64, mw \in U64 : w <= mw /\ new(w, mw)
    /\ twin = NoTwin

\* Two instances constructed by the same new(w, mw) that differ only in
\* recv_off (the second has received r more).
PairInit ==
    /\ overflow_checks \in BOOLEAN
    /\ panicked = FALSE
    /\ \E w \in U64, mw \in U64, r \in U64 :
          w <= mw /\ new(w, mw) /\ twin = twin_new(w, r)

window_get ==
    /\ ~panicked
    /\ Twin(twin_window_get(twin))
    /\ Returned("window", <<window>>)
    /\ UNCHANGED fields

max_data_get ==
    /\ ~panicked
    /\ Twin(twin_max_data_get(twin))
    /\ Returned("max_data", <<max_data>>)
    /\ UNCHANGED fields

recv_off_get ==
    /\ ~panicked
    /\ Twin(twin_recv_off_get(twin))
    /\ Returned("recv_off", <<recv_off>>)
    /\ UNCHANGED fields

increase_recv_off(delta) ==
    /\ ~panicked
    /\ Twin(twin_increase_recv_off(twin, delta))
    /\ IF overflow_checks /\ add_overflows(recv_off, delta)
       THEN Panic("increase_recv_off")
       ELSE /\ recv_off' = wrapping_add(recv_off, delta)
            /\ Returned("increase_recv_off", <<>>)
            /\ UNCHANGED <<read_off, max_data, window, max_window, last_updated>>

increase_read_off(delta) ==
    /\ ~panicked
    /\ Twin(twin_increase_read_off(twin, delta))
    /\ IF overflow_checks /\ add_overflows(read_off, delta)
       THEN Panic("increase_read_off")
       ELSE /\ read_off' = wrapping_add(read_off, delta)
            /\ Returned("increase_read_off", <<>>)
            /\ UNCHANGED <<recv_off, max_data, window, max_window, last_updated>>

\* (self.max_data - self.read_off) * 2 < self.window
should_send_max_data_panics ==
    \/ sub_overflows(max_data, read_off)
    \/ mul_overflows(wrapping_sub(max_data, read_off), 2)

should_send_max_data_value ==
    wrapping_mul(wrapping_sub(max_data, read_off), 2) < window

should_send_max_data ==
    /\ ~panicked
    /\ Twin(twin_should_send_max_data(twin))
    /\ IF overflow_checks /\ should_send_max_data_panics
       THEN Panic("should_send_max_data")
       ELSE /\ Returned("should_send_max_data", <<should_send_max_data_value>>)
            /\ UNCHANGED fields

\* self.read_off + self.window
max_data_next_panics == add_overflows(read_off, window)

max_data_next_value == wrapping_add(read_off, window)

max_data_next ==
    /\ ~panicked
    /\ Twin(twin_max_data_next(twin))
    /\ IF overflow_checks /\ max_data_next_panics
       THEN Panic("max_data_next")
       ELSE /\ Returned("max_data_next", <<max_data_next_value>>)
            /\ UNCHANGED fields

\* update_max_data as it would be if the new limit were advanced from the old
\* limit instead of from read_off.
update_max_data_from_limit(now) ==
    /\ ~panicked
    /\ Twin(twin_update_max_data(twin, now))
    /\ IF overflow_checks /\ add_overflows(max_data, window)
       THEN Panic("update_max_data")
       ELSE /\ max_data' = wrapping_add(max_data, window)
            /\ last_updated' = Some(now)
            /\ Returned("update_max_data", <<>>)
            /\ UNCHANGED <<read_off, recv_off, window, max_window>>

update_max_data(now) ==
    /\ ~panicked
    /\ Twin(twin_update_max_data(twin, now))
    /\ IF overflow_checks /\ max_data_next_panics
       THEN Panic("update_max_data")
       ELSE /\ max_data' = max_data_next_value
            /\ last_updated' = Some(now)
            /\ Returned("update_max_data", <<>>)
            /\ UNCHANGED <<read_off, recv_off, window, max_window>>

\* if let Some(last_updated) = self.last_updated { if now - last_updated < srtt * 2 {
autotune_window_due(now, srtt) ==
    /\ last_updated # None
    /\ duration_since(now, last_updated[1]) < srtt * 2

\* autotune_window as it would be if an absent last_updated were read as the
\* earliest Instant instead of skipping the tuning.
autotune_window_absent_as_epoch(now, srtt) ==
    /\ ~panicked
    /\ Twin(twin_autotune_window(twin, now, srtt))
    /\ IF duration_since(now, IF last_updated = None THEN 0 ELSE last_updated[1]) < srtt * 2
       THEN IF overflow_checks /\ mul_overflows(window, 2)
            THEN Panic("autotune_window")
            ELSE /\ window' = Min(wrapping_mul(window, 2), max_window)
                 /\ Returned("autotune_window", <<>>)
                 /\ UNCHANGED <<read_off, recv_off, max_data, max_window, last_updated>>
       ELSE /\ Returned("autotune_window", <<>>)
            /\ UNCHANGED fields

autotune_window(now, srtt) ==
    /\ ~panicked
    /\ Twin(twin_autotune_window(twin, now, srtt))
    /\ IF autotune_window_due(now, srtt)
       THEN IF overflow_checks /\ mul_overflows(window, 2)
            THEN Panic("autotune_window")
            ELSE /\ window' = Min(wrapping_mul(window, 2), max_window)
                 /\ Returned("autotune_window", <<>>)
                 /\ UNCHANGED <<read_off, recv_off, max_data, max_window, last_updated>>
       ELSE /\ Returned("autotune_window", <<>>)
            /\ UNCHANGED fields

\* ensure_window_lower_bound as it would be if it also advertised the raised
\* window at once.
ensure_window_lower_bound_advertising(min_window) ==
    /\ ~panicked
    /\ Twin(twin_ensure_window_lower_bound(twin, min_window))
    /\ window' = Max(window, min_window)
    /\ max_data' = Max(max_data, wrapping_add(read_off, window'))
    /\ Returned("ensure_window_lower_bound", <<>>)
    /\ UNCHANGED <<read_off, recv_off, max_window, last_updated>>

\* ensure_window_lower_bound as it would be if it assigned min_window
\* unconditionally.
ensure_window_lower_bound_overwriting(min_window) ==
    /\ ~panicked
    /\ Twin(twin_ensure_window_lower_bound(twin, min_window))
    /\ window' = min_window
    /\ Returned("ensure_window_lower_bound", <<>>)
    /\ UNCHANGED <<read_off, recv_off, max_data, max_window, last_updated>>

ensure_window_lower_bound(min_window) ==
    /\ ~panicked
    /\ Twin(twin_ensure_window_lower_bound(twin, min_window))
    /\ window' = Max(window, min_window)
    /\ Returned("ensure_window_lower_bound", <<>>)
    /\ UNCHANGED <<read_off, recv_off, max_data, max_window, last_updated>>

Next ==
    \/ window_get
    \/ max_data_get
    \/ recv_off_get
    \/ \E delta \in U64 : increase_recv_off(delta)
    \/ \E delta \in U64 : increase_read_off(delta)
    \/ should_send_max_data
    \/ max_data_next
    \/ \E now \in Instants : update_max_data(now)
    \/ \E now \in Instants, srtt \in Durations : autotune_window(now, srtt)
    \/ \E min_window \in U64 : ensure_window_lower_bound(min_window)

Spec == Init /\ [][Next]_vars

PairSpec == PairInit /\ [][Next]_vars

\* The caller of the auto-tuning scenario: any operation except
\* ensure_window_lower_bound, starting from a window of at least 1, where an
\* update_max_data and an autotune_window within 2 * srtt of the last update
\* keep being performed.
TuneInit == Init /\ window >= 1

autotune_window_within_two_srtt ==
    \E now \in Instants, srtt \in Durations :
        autotune_window_due(now, srtt) /\ autotune_window(now, srtt)

TuneNext ==
    \/ window_get
    \/ max_data_get
    \/ recv_off_get
    \/ \E delta \in U64 : increase_recv_off(delta)
    \/ \E delta \in U64 : increase_read_off(delta)
    \/ should_send_max_data
    \/ max_data_next
    \/ \E now \in Instants : update_max_data(now)
    \/ \E now \in Instants, srtt \in Durations : autotune_window(now, srtt)

TuneSpec ==
    /\ TuneInit
    /\ [][TuneNext]_vars
    /\ WF_vars(\E now \in Instants : update_max_data(now))
    /\ WF_vars(autotune_window_within_two_srtt)

TypeOK ==
    /\ read_off \in U64 /\ recv_off \in U64 /\ max_data \in U64
    /\ window \in U64 /\ max_window \in U64
    /\ last_updated \in {None} \cup {Some(t) : t \in Instants}
    /\ overflow_checks \in BOOLEAN /\ panicked \in BOOLEAN

----------------------------------------------------------------------------
(* Properties.  A step "completes" when the call it makes returns normally; *)
(* a call that panics assigns nothing.                                      *)

\* The last call returned normally and was `op`.
Completed(op) == call.op = op /\ ~panicked

\* C1: window <= max_window in every state reachable from
\* new(window, max_window) with window <= max_window.
C1_WindowAtMostMaxWindow == window <= max_window

\* C2: window is non-decreasing: no operation leaves window smaller than it
\* found it; auto-tuning never shrinks the window.
C2_WindowNonDecreasing == [][window' >= window]_vars

\* C3: max_data is non-decreasing: no operation, and in particular no
\* update_max_data call, lowers max_data.
C3_MaxDataNonDecreasing == [][max_data' >= max_data]_vars

\* C4: whenever read_off <= max_data, should_send_max_data() returns true if
\* and only if (max_data - read_off) * 2 < window holds of the current state.
C4_ShouldSendIffBelowHalfWindow ==
    (call.op = "should_send_max_data" /\ read_off <= max_data)
        => ((call.ret = <<TRUE>>) <=> ((max_data - read_off) * 2 < window))

C6_AutotuneDoublesWithinTwoSrtt ==
    [][call'.op = "autotune_window" => \A now \in Instants, srtt \in Durations :
          (autotune_window(now, srtt) /\ ~panicked') =>
              LET due == /\ last_updated # None
                         /\ (IF now >= last_updated[1] THEN now - last_updated[1] ELSE 0)
                                < 2 * srtt
              IN  /\ IF due
                     THEN window' = (IF 2 * window < max_window THEN 2 * window
                                                                ELSE max_window)
                     ELSE window' = window
                  /\ UNCHANGED <<read_off, recv_off, max_data, max_window, last_updated>>]_vars

\* C7: update_max_data is the only operation that changes max_data or
\* last_updated.
C7_OnlyUpdateMutatesMaxData ==
    [][call'.op # "update_max_data" =>
          (max_data' = max_data /\ last_updated' = last_updated)]_vars

\* autotune_window has doubled the window after an update and the limit is
\* still the one the update committed.
C7_Witness ==
    /\ Completed("autotune_window")
    /\ last_updated # None
    /\ read_off <= max_data
    /\ max_data < read_off + window
    /\ window <= max_window

\* C8: ensure_window_lower_bound(min_window) sets window to
\* max(window, min_window), never lowers it and changes no other field.
C8_EnsureWindowLowerBound ==
    [][call'.op = "ensure_window_lower_bound" => \A min_window \in U64 :
          ensure_window_lower_bound(min_window) =>
              /\ ~panicked'
              /\ (min_window <= window => window' = window)
              /\ (min_window > window => window' = min_window)
              /\ window' >= window
              /\ UNCHANGED <<read_off, recv_off, max_data, max_window, last_updated>>]_vars

\* Before any update, ensure_window_lower_bound has raised the window above
\* the initial one, which max_data still holds.
C8_Witness ==
    /\ Completed("ensure_window_lower_bound")
    /\ last_updated = None
    /\ window > max_data

\* C9: read_off and recv_off are the running sums of the deltas passed to
\* increase_read_off and increase_recv_off (both start at 0, each completed
\* call adds its delta), and each of the two changes only its own counter.
C9_CountersAreRunningSums ==
    [][call'.op \in {"increase_read_off", "increase_recv_off"} => \A delta \in U64 :
          /\ (increase_read_off(delta) /\ ~panicked') =>
                /\ read_off' = read_off + delta
                /\ UNCHANGED <<recv_off, max_data, window, max_window, last_updated>>
          /\ (increase_recv_off(delta) /\ ~panicked') =>
                /\ recv_off' = recv_off + delta
                /\ UNCHANGED <<read_off, max_data, window, max_window, last_updated>>]_vars

\* C10: an addition whose true sum exceeds the largest u64 is detected (the
\* call panics) or saturated; read_off, recv_off and max_data never hold the
\* sum reduced modulo 2^64.
C10_NoSilentWrap ==
    [][/\ call'.op \in {"increase_read_off", "increase_recv_off"} => \A delta \in U64 :
             /\ (increase_read_off(delta) /\ read_off + delta > U64Max)
                   => (panicked' \/ read_off' = U64Max)
             /\ (increase_recv_off(delta) /\ recv_off + delta > U64Max)
                   => (panicked' \/ recv_off' = U64Max)
       /\ call'.op = "update_max_data" => \A now \in Instants :
             (update_max_data(now) /\ read_off + window > U64Max)
                   => (panicked' \/ max_data' = U64Max)]_vars

\* C11: every operation is total: whatever calls were made with whatever
\* arguments, also once read_off > max_data, each call returns normally
\* (should_send_max_data with a boolean) and none aborts.
C11_EveryOperationTotal ==
    /\ ~panicked
    /\ call.op = "should_send_max_data" => call.ret \in {<<TRUE>>, <<FALSE>>}

\* C12: should_send_max_data, max_data_next and the accessors window(),
\* max_data(), recv_off() leave all six fields unchanged, and max_data_next()
\* returns read_off + window, the same value on every call in a row.
C12_ObserversSideEffectFree ==
    [][call'.op \in {"should_send_max_data", "max_data_next",
                     "window", "max_data", "recv_off"} =>
          /\ UNCHANGED fields
          /\ (call'.op = "max_data_next" /\ ~panicked')
                => call'.ret = <<read_off + window>>
          /\ (call.op = "max_data_next" /\ call'.op = "max_data_next" /\ ~panicked')
                => call'.ret = call.ret]_vars

\* C13: update_max_data is idempotent on the limit: a second update_max_data
\* made directly after a first one leaves max_data as the first left it, and
\* last_updated ends as the second call's time.
C13_UpdateMaxDataIdempotent ==
    [][(call.op = "update_max_data" /\ call'.op = "update_max_data") =>
          \A t2 \in Instants :
              update_max_data(t2) =>
                  /\ ~panicked'
                  /\ max_data' = max_data
                  /\ last_updated' = Some(t2)
                  /\ UNCHANGED <<read_off, recv_off, window, max_window>>]_vars

\* Two updates in a row, after some consumption and with a non-empty window.
C13_Witness ==
    /\ Completed("update_max_data")
    /\ call.repeated
    /\ read_off > 0
    /\ window > 0

\* C14: the doubling in autotune_window is capped, not wrapped: when
\* window <= max_window, the doubled window exceeds the u64 range and the last
\* update is within 2 * srtt, autotune_window sets window to max_window and
\* never to less than the previous window.
C14_DoublingCappedNotWrapped ==
    [][call'.op = "autotune_window" => \A now \in Instants, srtt \in Durations :
          (/\ autotune_window(now, srtt)
           /\ window <= max_window
           /\ 2 * window > U64Max
           /\ last_updated # None
           /\ (IF now >= last_updated[1] THEN now - last_updated[1] ELSE 0) < 2 * srtt)
              => (window' = max_window /\ window' >= window)]_vars

\* C15: for read_off <= max_data, should_send_max_data() returns the truth
\* value of the mathematical inequality 2 * (max_data - read_off) < window;
\* when the doubled difference does not fit in a u64 it returns false.
C15_ShouldSendAgreesWithMathematics ==
    (call.op = "should_send_max_data" /\ read_off <= max_data) =>
        /\ call.ret = <<2 * (max_data - read_off) < window>>
        /\ 2 * (max_data - read_off) > U64Max => call.ret = <<FALSE>>

\* C16: max_data <= read_off + window in every state reachable from
\* new(window, max_window) with window <= max_window: the candidate limit is
\* never below the limit already advertised.
C16_NextLimitNotBelowLimit == max_data <= read_off + window

\* A should_send_max_data() call made in this state would return true.
ShouldSendReturnsTrue ==
    /\ ~(overflow_checks /\ should_send_max_data_panics)
    /\ should_send_max_data_value

\* C17: in the state right after update_max_data, should_send_max_data() is
\* not true, it is still not true after one following autotune_window call,
\* and it can become true again only through increase_read_off,
\* ensure_window_lower_bound or autotune_window.
C17_UpdateSatisfiesSendCondition ==
    [][/\ (call'.op = "update_max_data" /\ ~panicked')
             => ~ShouldSendReturnsTrue'
       /\ (call.op = "update_max_data" /\ call'.op = "autotune_window" /\ ~panicked')
             => ~ShouldSendReturnsTrue'
       /\ (/\ ~ShouldSendReturnsTrue
           /\ call'.op \notin {"increase_read_off", "ensure_window_lower_bound",
                               "autotune_window"})
             => ~ShouldSendReturnsTrue']_vars

\* C18: auto-tuning converges to the ceiling: from new(w, m) with 1 <= w <= m,
\* a caller that keeps updating and auto-tuning within 2 * srtt and never calls
\* ensure_window_lower_bound eventually has window = max_window, and has it in
\* every later state.
C18_WindowConvergesToMaxWindow == <>[](window = max_window)

\* C20: last_updated is absent exactly until the first update_max_data
\* returns: no other operation sets it, a completed update_max_data sets it,
\* no operation clears it, and so autotune_window leaves window alone as long
\* as no update_max_data has been made.
C20_LastUpdatedAbsentUntilFirstUpdate ==
    [][/\ (last_updated = None /\ call'.op # "update_max_data") => last_updated' = None
       /\ (call'.op = "update_max_data" /\ ~panicked') => last_updated' # None
       /\ last_updated # None => last_updated' # None
       /\ (last_updated = None /\ call'.op = "autotune_window") => window' = window]_vars

\* autotune_window was called before any update_max_data, on a window that a
\* doubling would have changed, and last_updated is still absent.
C20_Witness ==
    /\ Completed("autotune_window")
    /\ last_updated = None
    /\ window >= 1
    /\ window < max_window
    /\ window = max_data

====
